---- MODULE Spec2Model ----
(***************************************************************************)
(* Snake-Server: the game thread (game_), the client threads               *)
(* (handle_client), the channels between them and the game engine          *)
(* (Game, Snake).                                                          *)
(*                                                                         *)
(* Indices (ids) are 0-based as in the source; the element with id i of a  *)
(* Vec is element i + 1 of the sequence that models it.                    *)
(***************************************************************************)
EXTENDS Integers, Sequences, FiniteSets, TLC

\* ---------------------------------------------------------------- constants

\* MAX_CLIENTS set one too high (fault injected to test C8)
MaxClientsOff == 4 + 1

\* main.rs: const MAX_CLIENTS
MAX_CLIENTS == 4
\* game.rs: const WIDTH, HEIGHT
WIDTH == 20
HEIGHT == 20
\* Point.x and Point.y are u16
U16 == 65536

\* ------------------------------------------------------------------- bounds

\* connections the listener accepts over a run
MaxConns == 5
\* ForceStartMessage { force_start: true } lines the peers send over a run
MaxForce == 2
\* DirectionMessage lines the peers send over a run
MaxDirs == 2
\* connections the peers close over a run
MaxClose == 1
\* events game_ has sent to one client thread that the thread has not taken
MaxLag == 2
\* the food cells the random generator is let to draw: columns FoodMinX ..
\* FoodMinX + FoodSpan - 1 of rows FoodMinY .. FoodMinY + FoodSpan - 1
FoodSpan == 2
FoodMinX == 11
FoodMinY == 9

\* the boards a turn is played from, other than those of a first turn: the
\* snakes lie in the BoardSpan x BoardSpan cells from (BoardMinX, BoardMinY)
\* on, or (one snake) in the CornerSpan x CornerSpan cells of the corner at
\* (1, 1), of the corner at (WIDTH, HEIGHT) or of the corner at (0, 0) beyond
\* the border; BoardTurn is the turn played, late enough for a snake to have
\* gone from its first cells to any of these
BoardMinX == 10
BoardMinY == 9
BoardSpan == 3
CornerSpan == 3
BoardTurn == 30

Conns == 1..MaxConns

\* ---------------------------------------------------------------- sequences

\* Vec::remove(id)
RemoveAt(seq, id) ==
    [k \in 1..(Len(seq) - 1) |-> IF k <= id THEN seq[k] ELSE seq[k + 1]]

Range(seq) == {seq[k] : k \in 1..Len(seq)}

Last(seq) == seq[Len(seq)]

\* the ids 0 .. n-1 in order
Ids(n) == [k \in 1..n |-> k - 1]

\* seq without the elements whose id is in ids
KeepIds(seq, ids) ==
    LET keep == SelectSeq(Ids(Len(seq)), LAMBDA id : id \notin Range(ids))
    IN  [k \in 1..Len(keep) |-> seq[keep[k] + 1]]

\* ------------------------------------------------------------------- snake.rs

Directions == {"Up", "Down", "Left", "Right"}

Point(x, y) == [x |-> x, y |-> y]

\* Snake::init
SnakeInit(id, nb, width, height) ==
    LET y == ((height \div (2 * nb)) * (id + 1)) % U16
    IN  [body |-> << Point((width \div 2) - 1, y),
                     Point(width \div 2, y),
                     Point((width \div 2) + 1, y) >>,
         direction |-> "Right"]

\* the u16 subtraction of Snake::_move leaves the range
MoveOverflows(snake) ==
    LET p == Last(snake.body)
    IN  \/ snake.direction = "Up" /\ p.y = 0
        \/ snake.direction = "Left" /\ p.x = 0
        \/ snake.direction = "Down" /\ p.y = U16 - 1
        \/ snake.direction = "Right" /\ p.x = U16 - 1

\* Snake::_move, the arithmetic wrapping as in a build without overflow checks
SnakeMove(snake) ==
    LET rest == Tail(snake.body)
        p == Last(rest)
        point == CASE snake.direction = "Up" -> Point(p.x, (p.y - 1) % U16)
                   [] snake.direction = "Down" -> Point(p.x, (p.y + 1) % U16)
                   [] snake.direction = "Right" -> Point((p.x + 1) % U16, p.y)
                   [] snake.direction = "Left" -> Point((p.x - 1) % U16, p.y)
    IN  [snake EXCEPT !.body = Append(rest, point)]

\* _grow that drops the first segment (fault injected to test C16)
SnakeGrowDropsTail(snake, food) ==
    [snake EXCEPT !.body = Append(Tail(snake.body), food)]

\* Snake::_grow
SnakeGrow(snake, food) == [snake EXCEPT !.body = Append(snake.body, food)]

\* Snake::_do_overlap
SnakeDoOverlap(snake, point) ==
    \E k \in 1..Len(snake.body) :
        snake.body[k].x = point.x /\ snake.body[k].y = point.y

\* _check_border_collisions with the low border at 0 (fault injected to test
\* C15)
CheckBorderCollisionsFromZero(snake, width, height) ==
    LET p == Last(snake.body)
    IN  \/ p.x = 0
        \/ p.x = width % U16
        \/ p.y = 0
        \/ p.y = height % U16

\* Snake::_check_border_collisions
CheckBorderCollisions(snake, width, height) ==
    LET p == Last(snake.body)
    IN  \/ p.x = 1
        \/ p.x = width % U16
        \/ p.y = 1
        \/ p.y = height % U16

\* Snake::_check_food_collision
CheckFoodCollision(snake, point) ==
    LET p == Last(snake.body)
    IN  p.x = point.x /\ p.y = point.y

\* -------------------------------------------------------------------- game.rs

GameStates == {"Ready", "Playing", "Lost"}

\* Game::do_overlap
DoOverlap(snakes, point) ==
    \E k \in 1..Len(snakes) : SnakeDoOverlap(snakes[k], point)

\* the points rand's gen_range(2..width-1), gen_range(2..height-1) can give
InteriorCells ==
    {Point(x, y) : x \in 2..(WIDTH - 2), y \in 2..(HEIGHT - 2)}

\* the points the generator is let to draw in this model
FoodCells ==
    {c \in InteriorCells :
        /\ c.x \in FoodMinX..(FoodMinX + FoodSpan - 1)
        /\ c.y \in FoodMinY..(FoodMinY + FoodSpan - 1)}

\* create_food without the rejection loop (fault injected to test C18)
CreateFoodAnywhere(snakes) == FoodCells

\* Game::create_food: the points the rejection loop can end with
CreateFood(snakes) == {c \in FoodCells : ~DoOverlap(snakes, c)}

\* Game::check_snake_collisions: the head of snake id against every other
\* segment of every snake (the head itself is skipped by address)
CheckSnakeCollisions(snakes, id) ==
    LET last == Last(snakes[id + 1].body)
    IN  \E k \in 1..Len(snakes) : \E n \in 1..Len(snakes[k].body) :
            /\ ~(k = id + 1 /\ n = Len(snakes[k].body))
            /\ snakes[k].body[n].x = last.x
            /\ snakes[k].body[n].y = last.y

\* Game::check_collisions
CheckCollisions(g, id) ==
    IF \/ CheckBorderCollisions(g.snakes[id + 1], g.width, g.height)
       \/ CheckSnakeCollisions(g.snakes, id)
    THEN "BorderOrSnake"
    ELSE IF CheckFoodCollision(g.snakes[id + 1], g.food)
         THEN "Food"
         ELSE "None"

\* Game::move_snakes
MoveSnakes(snakes) == [k \in 1..Len(snakes) |-> SnakeMove(snakes[k])]

\* Game::snakes_to_vec
SnakesToVec(snakes) == [k \in 1..Len(snakes) |-> snakes[k].body]

\* set_states that leaves the states as they are (fault injected to test C11)
SetStatesNone(g, state) == g

\* Game::set_states
SetStates(g, state) ==
    [g EXCEPT !.states = [k \in 1..Len(g.states) |-> state]]

\* Game::play_turn, the loop over the ids from id on: the games it can end with
\* (one for every point create_food can draw)
RECURSIVE PlayTurnFrom(_, _, _)
PlayTurnFrom(id, old_positions, g) ==
    IF id >= Len(g.snakes)
    THEN {g}
    ELSE LET c == CheckCollisions(g, id)
         IN  IF c = "BorderOrSnake"
             THEN PlayTurnFrom(id + 1, old_positions,
                               [g EXCEPT !.states[id + 1] = "Lost"])
             ELSE IF c = "Food"
             THEN LET grown == SnakeGrow(
                                 [g.snakes[id + 1] EXCEPT
                                     !.body = old_positions[id + 1]],
                                 g.food)
                      snakes == [g.snakes EXCEPT ![id + 1] = grown]
                  IN  UNION {PlayTurnFrom(id + 1, old_positions,
                                          [g EXCEPT !.snakes = snakes,
                                                    !.food = f])
                             : f \in CreateFood(snakes)}
             ELSE PlayTurnFrom(id + 1, old_positions, g)

\* play_turn that also drops the snake and the state of every player it
\* finds Lost (fault injected to test C9)
PlayTurnDropsLost(g) ==
    LET keep(h) == SelectSeq(Ids(Len(h.states)),
                             LAMBDA id : h.states[id + 1] # "Lost")
    IN  {[h EXCEPT !.snakes = [k \in 1..Len(keep(h)) |->
                                  h.snakes[keep(h)[k] + 1]],
                   !.states = [k \in 1..Len(keep(h)) |->
                                  h.states[keep(h)[k] + 1]]]
         : h \in PlayTurnFrom(0, SnakesToVec(g.snakes),
                              [g EXCEPT !.snakes = MoveSnakes(g.snakes)])}

\* Game::play_turn
PlayTurn(g) ==
    PlayTurnFrom(0, SnakesToVec(g.snakes),
                 [g EXCEPT !.snakes = MoveSnakes(g.snakes)])

\* Game::new: the games it can return
GameNew(nb) ==
    LET snakes == [k \in 1..nb |-> SnakeInit(k - 1, nb, WIDTH, HEIGHT)]
    IN  {[snakes |-> snakes,
          food |-> f,
          width |-> WIDTH,
          height |-> HEIGHT,
          states |-> [k \in 1..nb |-> "Ready"]] : f \in CreateFood(snakes)}

\* no Game exists (the lobby)
NoGame ==
    [snakes |-> << >>, food |-> Point(0, 0), width |-> WIDTH,
     height |-> HEIGHT, states |-> << >>]

\* ------------------------------------------------------------------ main.rs

VARIABLES
    intake,        \* the channel main -> game_ : the accepted connections
    nconn,         \* connections accepted so far; a connection is its number
    pc,            \* where game_ stands
    senders,       \* channels.senders : the session each Sender leads to
    receivers,     \* channels.receivers : the session each Receiver comes from
    size,          \* channels.size
    should_break,  \* should_break of the last lobby iteration
    game,          \* game (NoGame in the lobby)
    directions,    \* directions, the result of receive_all
    panic,         \* the panic that ended game_, or "none"
    turn,          \* the turns begun in this match
    wpc,           \* where each handle_client stands
    toWorker,      \* per session, the ClientEventMessages in flight
    toCoord,       \* per session, the ClientMessages in flight
    peerOpen,      \* per connection, the peer has not closed it
    peerLast,      \* per session, the last message written to the peer
    nForce,        \* force_start = true lines read so far
    nDirs,         \* direction lines read so far
    nClose         \* connections closed by peers so far

vars ==
    << intake, nconn, pc, senders, receivers, size, should_break, game,
       directions, panic, turn, wpc, toWorker, toCoord, peerOpen, peerLast,
       nForce, nDirs, nClose >>

coordVars ==
    << intake, pc, senders, receivers, size, should_break, game, directions,
       panic, turn >>

Init ==
    /\ intake = << >>
    /\ nconn = 0
    /\ pc = "lobby"
    /\ senders = << >>
    /\ receivers = << >>
    /\ size = 0
    /\ should_break = FALSE
    /\ game = NoGame
    /\ directions = << >>
    /\ panic = "none"
    /\ turn = 0
    /\ wpc = [s \in Conns |-> "none"]
    /\ toWorker = [s \in Conns |-> << >>]
    /\ toCoord = [s \in Conns |-> << >>]
    /\ peerOpen = [s \in Conns |-> FALSE]
    /\ peerLast = [s \in Conns |-> "none"]
    /\ nForce = 0
    /\ nDirs = 0
    /\ nClose = 0

\* ClientEventMessage
ClientEventMessage(id, event, data) ==
    [id |-> id, event |-> event, data |-> data]

\* ClientMessage::StartGame; from is the session that sent it
StartGame(s) ==
    [type |-> "StartGame", direction |-> "none", from |-> s, turn |-> 0]

\* ClientMessage::Direction; from and turn are the session that sent it and
\* the turn of the WaitDirection it answers
Direction(d, s, t) ==
    [type |-> "Direction", direction |-> d, from |-> s, turn |-> t]

\* GameConfig::new
GameConfigNew(g) ==
    [width |-> g.width, height |-> g.height,
     snakes |-> SnakesToVec(g.snakes), food |-> g.food]

\* game_ still holds the channel ends of session s: it has neither removed
\* the session nor unwound
CoordHolds(s) == panic = "none" /\ s \in Range(receivers)

\* handle_client of session s has ended: its Sender and Receiver are dropped
ClientEnded(s) == wpc[s] = "done"

\* the channel ends and the Game vectors remove_players works on
Pool ==
    [senders |-> senders, receivers |-> receivers, size |-> size,
     states |-> game.states, snakes |-> game.snakes]

\* remove_players without the loop over j that updates the other ids (fault
\* injected to test C19)
RECURSIVE RemovePlayersNoUpdate(_, _, _)
RemovePlayersNoUpdate(i, ids, st) ==
    IF i >= Len(ids)
    THEN st
    ELSE LET id == ids[i + 1]
             st2 == [senders |-> RemoveAt(st.senders, id),
                     receivers |-> RemoveAt(st.receivers, id),
                     size |-> st.size - 1,
                     states |-> RemoveAt(st.states, id),
                     snakes |-> RemoveAt(st.snakes, id)]
         IN  RemovePlayersNoUpdate(i + 1, ids, st2)

\* remove_players, the loop over i from i on (i is 0-based)
RECURSIVE RemovePlayersFrom(_, _, _)
RemovePlayersFrom(i, ids, st) ==
    IF i >= Len(ids)
    THEN st
    ELSE LET id == ids[i + 1]
             st2 == [senders |-> RemoveAt(st.senders, id),
                     receivers |-> RemoveAt(st.receivers, id),
                     size |-> st.size - 1,
                     states |-> RemoveAt(st.states, id),
                     snakes |-> RemoveAt(st.snakes, id)]
             ids2 == [j \in 1..Len(ids) |->
                         IF (i + 1 # j) /\ (ids[j] > ids[i + 1])
                         THEN ids[j] - 1
                         ELSE ids[j]]
         IN  RemovePlayersFrom(i + 1, ids2, st2)

\* remove_players without game.states.remove(id) (fault injected to test C1)
RemovePlayersKeepStates(ids, st) ==
    [RemovePlayersFrom(0, ids, st) EXCEPT !.states = st.states]

\* remove_players
RemovePlayers(ids, st) == RemovePlayersFrom(0, ids, st)

\* send_all: the ids whose sender.send fails (the Receiver is dropped)
SendAllIds ==
    SelectSeq(Ids(Len(senders)), LAMBDA id : ClientEnded(senders[id + 1]))

\* the channels after remove_players left st; the channel ends of a removed
\* session are dropped with what they hold
Removed(st, inbox) ==
    /\ senders' = st.senders
    /\ receivers' = st.receivers
    /\ size' = st.size
    /\ toCoord' = [s \in Conns |->
                      IF s \in Range(st.receivers) THEN inbox[s] ELSE << >>]

\* the Game after remove_players left st
GameRemoved(st) == [game EXCEPT !.states = st.states, !.snakes = st.snakes]

\* the channels and the Game as send_all's remove_players leaves them
SendAllPool == RemovePlayers(SendAllIds, Pool)

\* send_all with "id += 1" in the Ok arm only (fault injected to test C13)
SendAllCountsOk(event, data) ==
    /\ \A s \in Range(senders) : Len(toWorker[s]) < MaxLag
    /\ toWorker' = [s \in Conns |->
          IF \E id \in 0..(Len(senders) - 1) :
                 senders[id + 1] = s /\ ~ClientEnded(s)
          THEN LET id == CHOOSE id \in 0..(Len(senders) - 1) :
                             senders[id + 1] = s
                   ok == Cardinality({j \in 0..(id - 1) :
                                         ~ClientEnded(senders[j + 1])})
               IN  Append(toWorker[s], ClientEventMessage(ok, event, data))
          ELSE toWorker[s]]
    /\ Removed(SendAllPool, toCoord)

\* send_all(event, channels, game), data being the event's payload; the Game
\* is left to the caller (GameRemoved(SendAllPool))
SendAll(event, data) ==
    /\ \A s \in Range(senders) : Len(toWorker[s]) < MaxLag
    /\ toWorker' = [s \in Conns |->
          IF \E id \in 0..(Len(senders) - 1) :
                 senders[id + 1] = s /\ ~ClientEnded(s)
          THEN LET id == CHOOSE id \in 0..(Len(senders) - 1) :
                             senders[id + 1] = s
               IN  Append(toWorker[s], ClientEventMessage(id, event, data))
          ELSE toWorker[s]]
    /\ Removed(SendAllPool, toCoord)

\* receive_all, the loop over the receivers from id on: recv blocks on a
\* session that is alive and has sent nothing
RECURSIVE ReceiveFrom(_, _, _, _)
ReceiveFrom(id, messages, ids, read) ==
    IF id >= Len(receivers)
    THEN [outcome |-> "done", messages |-> messages, ids |-> ids,
          read |-> read]
    ELSE LET s == receivers[id + 1]
         IN  IF toCoord[s] # << >>
             THEN IF Head(toCoord[s]).type = "Direction"
                  THEN ReceiveFrom(id + 1, Append(messages, Head(toCoord[s])),
                                   ids, read \cup {s})
                  ELSE [outcome |-> "panic", messages |-> messages,
                        ids |-> ids, read |-> read \cup {s}]
             ELSE IF ClientEnded(s)
                  THEN ReceiveFrom(id + 1, messages, Append(ids, id), read)
                  ELSE [outcome |-> "blocked", messages |-> messages,
                        ids |-> ids, read |-> read]

\* receive_all
ReceiveAllScan == ReceiveFrom(0, << >>, << >>, {})

\* ---------------------------------------------------------- main (listener)

\* main: the listener accepts a connection and sends it to game_. The intake
\* is read in the lobby only: a connection accepted during a match is taken
\* as accepted when game_ is back in the lobby
Connect ==
    /\ pc = "lobby"
    /\ nconn < MaxConns
    /\ nconn' = nconn + 1
    /\ intake' = Append(intake, nconn + 1)
    /\ peerOpen' = [peerOpen EXCEPT ![nconn + 1] = TRUE]
    /\ UNCHANGED << pc, senders, receivers, size, should_break, game,
                    directions, panic, turn, wpc, toWorker, toCoord, peerLast, nForce, nDirs, nClose >>

\* -------------------------------------------------------------- game_ (lobby)

\* the lobby loop's poll of the receivers, from id on: "start" (a StartGame
\* was taken from session at), "wrong" (another message was), "disconnected"
\* or "none" (every channel was empty)
RECURSIVE LobbyScanFrom(_)
LobbyScanFrom(id) ==
    IF id >= Len(receivers)
    THEN [outcome |-> "none", at |-> 0]
    ELSE LET s == receivers[id + 1]
         IN  IF toCoord[s] # << >>
             THEN IF Head(toCoord[s]).type = "StartGame"
                  THEN [outcome |-> "start", at |-> s]
                  ELSE [outcome |-> "wrong", at |-> s]
             ELSE IF ClientEnded(s)
                  THEN [outcome |-> "disconnected", at |-> s]
                  ELSE LobbyScanFrom(id + 1)

LobbyScan == LobbyScanFrom(0)

\* the lobby admits a connection taken from the intake while this holds
LobbyAdmits(n) == n < MAX_CLIENTS

\* the lobby loop ending one session early (fault injected to test C6)
LobbyFullOffByOne(n) == n = MAX_CLIENTS - 1

\* the lobby loop ends, without polling the receivers, after a connection was
\* taken from the intake while this holds
LobbyFull(n) == n = MAX_CLIENTS

\* one iteration of the lobby loop: the intake is polled, then (unless the
\* pool is full) every receiver is; the newly admitted session's channel is
\* empty and its thread alive, so the poll of the receivers reads the same
\* from the pool as it was before the admission
Lobby ==
    /\ pc = "lobby"
    /\ LET taken == intake # << >>
           admit == taken /\ LobbyAdmits(size)
           n == IF admit THEN size + 1 ELSE size
           r == IF taken /\ LobbyFull(n)
                THEN [outcome |-> "full", at |-> 0]
                ELSE LobbyScan
       IN  /\ intake' = IF taken THEN Tail(intake) ELSE intake
           /\ senders' = IF admit THEN Append(senders, Head(intake))
                         ELSE senders
           /\ receivers' = IF admit THEN Append(receivers, Head(intake))
                           ELSE receivers
           /\ size' = n
           /\ wpc' = IF admit THEN [wpc EXCEPT ![Head(intake)] = "poll"]
                     ELSE wpc
           \* a connection that is not admitted is dropped, which closes it
           /\ peerOpen' = IF taken /\ ~admit
                          THEN [peerOpen EXCEPT ![Head(intake)] = FALSE]
                          ELSE peerOpen
           /\ should_break' = (r.outcome = "start")
           /\ pc' = CASE r.outcome \in {"start", "full"} -> "create"
                      [] r.outcome = "none" -> "lobby"
                      [] OTHER -> "aborted"
           /\ panic' = CASE r.outcome = "wrong" -> "Received wrong event"
                         [] r.outcome = "disconnected" -> "Channel disconnected"
                         [] OTHER -> "none"
           /\ toCoord' = IF r.outcome \in {"start", "wrong"}
                         THEN [toCoord EXCEPT ![r.at] = Tail(@)]
                         ELSE toCoord
    /\ UNCHANGED << nconn, game, directions, turn, toWorker, peerLast, nForce, nDirs, nClose >>

\* Game::new(channels.size) after the lobby loop
CreateGame ==
    /\ pc = "create"
    /\ game' \in GameNew(size)
    /\ pc' = "exit_lobby"
    /\ UNCHANGED << intake, nconn, senders, receivers, size, should_break,
                    directions, panic, turn, wpc, toWorker, toCoord, peerOpen,
                    peerLast, nForce, nDirs, nClose >>

\* -------------------------------------------------------------- game_ (match)

\* what a broadcast leaves alone
RoundUnchanged ==
    UNCHANGED << intake, nconn, should_break, panic, wpc, peerOpen, peerLast,
                 nForce, nDirs, nClose >>

\* game_ without its send_all(ClientEvent::ExitLobby) (fault injected to test
\* C22)
ExitLobbyNotSent ==
    /\ pc = "exit_lobby"
    /\ pc' = "send_config"
    /\ UNCHANGED << senders, receivers, size, game, toWorker, toCoord, turn,
                    directions >>
    /\ RoundUnchanged

\* send_all(ClientEvent::ExitLobby)
ExitLobby ==
    /\ pc = "exit_lobby"
    /\ SendAll("ExitLobby", "none")
    /\ game' = GameRemoved(SendAllPool)
    /\ pc' = "send_config"
    /\ UNCHANGED << turn, directions >>
    /\ RoundUnchanged

\* GameConfig::new, send_all(ClientEvent::SendConfig(config)) and
\* game.set_states(GameState::Playing)
SendConfig ==
    /\ pc = "send_config"
    /\ SendAll("SendConfig", GameConfigNew(game))
    /\ game' = SetStates(GameRemoved(SendAllPool), "Playing")
    /\ pc' = "new_turn"
    /\ UNCHANGED << turn, directions >>
    /\ RoundUnchanged

\* the head of the match loop ending the match when no player is Playing any
\* more (fault injected to test C12)
NewTurnEndsWhenAllLost ==
    /\ pc = "new_turn"
    /\ IF \A k \in 1..Len(game.states) : game.states[k] = "Lost"
       THEN /\ pc' = "lobby"
            /\ game' = NoGame
            /\ turn' = 0
            /\ senders' = << >>
            /\ receivers' = << >>
            /\ size' = 0
            /\ UNCHANGED << toWorker, toCoord >>
       ELSE /\ SendAll("SendNewTurn", "none")
            /\ game' = GameRemoved(SendAllPool)
            /\ pc' = "wait_direction"
            /\ turn' = turn
    /\ UNCHANGED directions
    /\ RoundUnchanged

\* the head of the match loop: the loop ends when channels.size is 0 (game_
\* then starts over with new Channels), otherwise send_all(SendNewTurn)
NewTurn ==
    /\ pc = "new_turn"
    /\ IF size = 0
       THEN /\ pc' = "lobby"
            /\ game' = NoGame
            /\ turn' = 0
            /\ senders' = << >>
            /\ receivers' = << >>
            /\ UNCHANGED << size, toWorker, toCoord >>
       ELSE /\ SendAll("SendNewTurn", "none")
            /\ game' = GameRemoved(SendAllPool)
            /\ pc' = "wait_direction"
            /\ turn' = turn
    /\ UNCHANGED directions
    /\ RoundUnchanged

\* send_all(ClientEvent::WaitDirection); the event is stamped with the turn
WaitDirection ==
    /\ pc = "wait_direction"
    /\ SendAll("WaitDirection", turn + 1)
    /\ game' = GameRemoved(SendAllPool)
    /\ pc' = "receive"
    /\ turn' = turn + 1
    /\ UNCHANGED directions
    /\ RoundUnchanged

\* receive_all(&mut channels, &mut game): either every recv returns and
\* remove_players runs, or a message that is no Direction makes it panic
ReceiveAll ==
    /\ pc = "receive"
    /\ LET r == ReceiveAllScan
           inbox == [s \in Conns |->
                        IF s \in r.read THEN Tail(toCoord[s]) ELSE toCoord[s]]
       IN  /\ r.outcome # "blocked"
           /\ IF r.outcome = "panic"
              THEN /\ panic' = "Wrong ClientMessage type received"
                   /\ pc' = "aborted"
                   /\ toCoord' = inbox
                   /\ UNCHANGED << senders, receivers, size, game, directions >>
              ELSE /\ Removed(RemovePlayers(r.ids, Pool), inbox)
                   /\ game' = GameRemoved(RemovePlayers(r.ids, Pool))
                   /\ directions' = r.messages
                   /\ pc' = "play"
                   /\ panic' = panic
    /\ UNCHANGED << intake, nconn, should_break, turn, wpc, toWorker,
                    peerOpen, peerLast, nForce, nDirs, nClose >>

\* the loop over the snakes without "id += 1" (fault injected to test C2)
SetDirectionsFirst(snakes, dirs) ==
    [k \in 1..Len(snakes) |->
        [snakes[k] EXCEPT !.direction = dirs[1].direction]]

\* snake.direction = directions[id] for every snake
SetDirections(snakes, dirs) ==
    [k \in 1..Len(snakes) |->
        [snakes[k] EXCEPT !.direction = dirs[k].direction]]

\* the builds game_ can run as when a snake moves: with overflow checks the
\* u16 subtraction panics, without them it wraps
Builds(snakes) ==
    IF \E k \in 1..Len(snakes) : MoveOverflows(snakes[k])
    THEN {"checked", "wrapping"}
    ELSE {"wrapping"}

\* the directions are written to the snakes and game.play_turn() runs
Play ==
    /\ pc = "play"
    /\ IF Len(directions) < Len(game.snakes)
       THEN /\ panic' = "index out of bounds"
            /\ pc' = "aborted"
            /\ game' = game
       ELSE LET snakes == SetDirections(game.snakes, directions)
            IN  \E build \in Builds(snakes) :
                    IF build = "checked"
                    THEN /\ panic' = "attempt to subtract with overflow"
                         /\ pc' = "aborted"
                         /\ game' = [game EXCEPT !.snakes = snakes]
                    ELSE /\ game' \in PlayTurn([game EXCEPT !.snakes = snakes])
                         /\ pc' = "turn_result"
                         /\ panic' = panic
    /\ UNCHANGED << intake, nconn, senders, receivers, size, should_break,
                    directions, turn, wpc, toWorker, toCoord, peerOpen,
                    peerLast, nForce, nDirs, nClose >>

\* TurnData { food, snakes } and send_all(ClientEvent::SendTurnResult)
TurnResult ==
    /\ pc = "turn_result"
    /\ SendAll("SendTurnResult",
               [food |-> game.food, snakes |-> SnakesToVec(game.snakes)])
    /\ game' = GameRemoved(SendAllPool)
    /\ pc' = "game_state"
    \* directions is not read again before the next receive_all
    /\ directions' = << >>
    /\ UNCHANGED turn
    /\ RoundUnchanged

\* StateData { states } and send_all(ClientEvent::SendClientGameState)
ClientGameState ==
    /\ pc = "game_state"
    /\ SendAll("SendClientGameState", [states |-> game.states])
    /\ game' = GameRemoved(SendAllPool)
    /\ pc' = "new_turn"
    /\ UNCHANGED << turn, directions >>
    /\ RoundUnchanged

\* ------------------------------------------------------------ handle_client

\* the four variables of session s that handle_client changes
SetClient(s, p, queue, last, open) ==
    /\ wpc' = [wpc EXCEPT ![s] = p]
    /\ toWorker' = [toWorker EXCEPT ![s] = queue]
    /\ peerLast' = [peerLast EXCEPT ![s] = last]
    /\ peerOpen' = [peerOpen EXCEPT ![s] = open]

\* handle_client ends (it returns or panics): its Sender, its Receiver (with
\* the events still in it) and the stream are dropped
ClientEnds(s) == SetClient(s, "done", << >>, "none", FALSE)

\* what the peer of s can have done when handle_client next uses the stream:
\* TRUE when the connection is open, FALSE when the peer has closed it
PeerStates(s) ==
    IF ~peerOpen[s]
    THEN {FALSE}
    ELSE IF nClose < MaxClose THEN {TRUE, FALSE} ELSE {TRUE}

\* the closes counted after a use of the stream that found it open or not
Closes(s, open) == IF peerOpen[s] /\ ~open THEN nClose + 1 ELSE nClose

\* connection::send of a message of this kind: the write fails, and the
\* unwrap panics, when the peer has closed the connection
SendToPeer(s, p, queue, kind) ==
    \E open \in PeerStates(s) :
        /\ nClose' = Closes(s, open)
        /\ IF open
           THEN SetClient(s, p, queue, kind, TRUE)
           ELSE ClientEnds(s)

\* the two lobby messages exchanged (fault injected to test C7)
LobbyMessageSwapped(event) ==
    IF event = "ExitLobby" THEN "WaitInLobby" ELSE "Start"

\* what the lobby loop writes to the peer for the outcome of rx.try_recv()
LobbyMessage(event) ==
    IF event = "ExitLobby" THEN "Start" ELSE "WaitInLobby"

\* the lobby loop of handle_client up to the read of the peer: rx.try_recv()
\* and the message it leads to
ClientLobbyPoll(s) ==
    /\ wpc[s] = "poll"
    /\ IF toWorker[s] # << >>
       THEN IF Head(toWorker[s]).event = "ExitLobby"
            THEN SendToPeer(s, "config", Tail(toWorker[s]),
                            LobbyMessage("ExitLobby"))
            ELSE ClientEnds(s) /\ UNCHANGED nClose
       ELSE IF ~CoordHolds(s)
            THEN ClientEnds(s) /\ UNCHANGED nClose
            ELSE SendToPeer(s, "read", toWorker[s], LobbyMessage("Empty"))
    /\ UNCHANGED << coordVars, nconn, toCoord, nForce, nDirs >>

\* the lines receive::<ForceStartMessage> can return: force_start true or
\* false, or "closed" (Err) when the peer has closed the connection
ForceStartLines(s) ==
    {"closed" : open \in PeerStates(s) \ {TRUE}}
        \cup {"false" : open \in PeerStates(s) \ {FALSE}}
        \cup {"true" : open \in {o \in PeerStates(s) : o /\ nForce < MaxForce}}

\* the lobby loop of handle_client from the read of the peer on:
\* receive::<ForceStartMessage> blocks until the peer sends a line or closes
ClientLobbyRead(s) ==
    /\ wpc[s] = "read"
    /\ \E line \in ForceStartLines(s) :
          /\ nClose' = Closes(s, line # "closed")
          /\ nForce' = IF line = "true" THEN nForce + 1 ELSE nForce
          /\ IF line = "true" /\ ~CoordHolds(s)
             THEN ClientEnds(s) /\ UNCHANGED << toCoord >>
             ELSE /\ SetClient(s, "poll", toWorker[s], peerLast[s],
                               line # "closed")
                  /\ toCoord' = IF line = "true"
                                THEN [toCoord EXCEPT
                                         ![s] = Append(@, StartGame(s))]
                                ELSE toCoord
    /\ UNCHANGED << coordVars, nconn, nDirs >>

\* rx.recv().unwrap() after the lobby loop, and the GameConfigMessage
ClientConfig(s) ==
    /\ wpc[s] = "config"
    /\ IF toWorker[s] # << >>
       THEN IF Head(toWorker[s]).event = "SendConfig"
            THEN SendToPeer(s, "match", Tail(toWorker[s]), "GameConfigMessage")
            ELSE ClientEnds(s) /\ UNCHANGED nClose
       ELSE /\ ~CoordHolds(s)
            /\ ClientEnds(s)
            /\ UNCHANGED nClose
    /\ UNCHANGED << coordVars, nconn, toCoord, nForce, nDirs >>

\* the message handle_client writes to the peer for the event ev it took from
\* its channel (none for WaitDirection)
PeerMessage(ev) ==
    CASE ev.event = "SendConfig" ->
            [kind |-> "GameConfigMessage", id |-> ev.id,
             width |-> ev.data.width, height |-> ev.data.height,
             snakes |-> ev.data.snakes, food |-> ev.data.food]
      [] ev.event = "SendTurnResult" ->
            [kind |-> "TurnMessage", id |-> ev.id, food |-> ev.data.food,
             snakes |-> ev.data.snakes]
      [] ev.event = "SendClientGameState" ->
            [kind |-> "StateMessage", state |-> ev.data.states[ev.id + 1]]
      [] ev.event = "SendNewTurn" -> [kind |-> "NewTurn"]
      [] ev.event = "ExitLobby" -> [kind |-> "Start"]

\* the match loop with the arms of SendTurnResult and SendClientGameState
\* exchanged (fault injected to test C20)
MatchMessageExchanged(event) ==
    CASE event = "SendNewTurn" -> "NewTurn"
      [] event = "SendTurnResult" -> "StateMessage"
      [] event = "SendClientGameState" -> "TurnMessage"

\* the message the match loop writes to the peer for an event
MatchMessage(event) ==
    CASE event = "SendNewTurn" -> "NewTurn"
      [] event = "SendTurnResult" -> "TurnMessage"
      [] event = "SendClientGameState" -> "StateMessage"

MatchEvents ==
    {"SendNewTurn", "WaitDirection", "SendTurnResult", "SendClientGameState"}

\* one iteration of "for event in rx" other than WaitDirection, or its end
ClientEvent(s) ==
    /\ wpc[s] = "match"
    /\ IF toWorker[s] # << >>
       THEN LET ev == Head(toWorker[s])
            IN  /\ ev.event # "WaitDirection"
                /\ IF ev.event \in MatchEvents
                   THEN SendToPeer(s, "match", Tail(toWorker[s]),
                                   MatchMessage(ev.event))
                   ELSE ClientEnds(s) /\ UNCHANGED nClose
       ELSE /\ ~CoordHolds(s)
            /\ ClientEnds(s)
            /\ UNCHANGED nClose
    /\ UNCHANGED << coordVars, nconn, toCoord, nForce, nDirs >>

\* the lines receive::<DirectionMessage> can return: a direction, or "closed"
\* (Err) when the peer has closed the connection
DirectionLines(s) ==
    {"closed" : open \in PeerStates(s) \ {TRUE}}
        \cup {d \in Directions : peerOpen[s] /\ nDirs < MaxDirs}

\* the WaitDirection arm: receive::<DirectionMessage> blocks until the peer
\* sends a line or closes; the direction is sent to game_
ClientDirection(s) ==
    /\ wpc[s] = "match"
    /\ toWorker[s] # << >>
    /\ Head(toWorker[s]).event = "WaitDirection"
    /\ \E line \in DirectionLines(s) :
          /\ nClose' = Closes(s, line # "closed")
          /\ nDirs' = IF line = "closed" THEN nDirs ELSE nDirs + 1
          /\ IF line = "closed" \/ ~CoordHolds(s)
             THEN ClientEnds(s) /\ UNCHANGED toCoord
             ELSE /\ SetClient(s, "match", Tail(toWorker[s]), peerLast[s], TRUE)
                  /\ toCoord' = [toCoord EXCEPT ![s] =
                        Append(@, Direction(line, s, Head(toWorker[s]).data))]
    /\ UNCHANGED << coordVars, nconn, nForce >>

\* ------------------------------------------------------------ specification

Next ==
    \/ Connect
    \/ Lobby
    \/ CreateGame
    \/ ExitLobby
    \/ SendConfig
    \/ NewTurn
    \/ WaitDirection
    \/ ReceiveAll
    \/ Play
    \/ TurnResult
    \/ ClientGameState
    \/ \E s \in Conns : ClientLobbyPoll(s)
    \/ \E s \in Conns : ClientLobbyRead(s)
    \/ \E s \in Conns : ClientConfig(s)
    \/ \E s \in Conns : ClientEvent(s)
    \/ \E s \in Conns : ClientDirection(s)

Spec == Init /\ [][Next]_vars

\* ------------------------------------------- a turn of a match in progress

Adjacent(a, b) ==
    \/ a.x = b.x /\ (a.y = b.y + 1 \/ b.y = a.y + 1)
    \/ a.y = b.y /\ (a.x = b.x + 1 \/ b.x = a.x + 1)

\* the bodies of three segments a snake can have moved into within cells
Bodies(cells) ==
    {b \in cells \X cells \X cells :
        Adjacent(b[1], b[2]) /\ Adjacent(b[2], b[3]) /\ b[1] # b[3]}

\* the direction of the move that made b the head after a
Heading(a, b) ==
    CASE b.x = a.x + 1 -> "Right"
      [] a.x = b.x + 1 -> "Left"
      [] b.y = a.y + 1 -> "Down"
      [] OTHER -> "Up"

SnakeOf(body) == [body |-> body, direction |-> Heading(body[2], body[3])]

BoardCells ==
    {Point(x, y) : x \in BoardMinX..(BoardMinX + BoardSpan - 1),
                   y \in BoardMinY..(BoardMinY + BoardSpan - 1)}

CornerCells ==
    {Point(x, y) : x \in 1..CornerSpan, y \in 1..CornerSpan}
        \cup {Point(x, y) : x \in (WIDTH - CornerSpan + 1)..WIDTH,
                            y \in (HEIGHT - CornerSpan + 1)..HEIGHT}

\* the cells a snake that went on after it was Lost on the border can lie in:
\* move_snakes moves it whatever its state
OuterCells ==
    {Point(x, y) : x \in 0..(CornerSpan - 1), y \in 0..(CornerSpan - 1)}

\* a snake with a segment on a border cell, or beyond, has had its head on
\* the border
BeenOnBorder(body) ==
    \E n \in 1..Len(body) :
        \/ body[n].x <= 1
        \/ body[n].x >= WIDTH
        \/ body[n].y <= 1
        \/ body[n].y >= HEIGHT

\* the states the player of a snake with this body can have
StatesOf(body) ==
    IF BeenOnBorder(body) THEN {"Lost"} ELSE {"Playing", "Lost"}

GameOf(snakes, food, states) ==
    [snakes |-> snakes, food |-> food, width |-> WIDTH, height |-> HEIGHT,
     states |-> states]

\* the Games of a first turn: Game::new and set_states(Playing)
FirstBoards ==
    UNION {{SetStates(g, "Playing") : g \in GameNew(nb)}
           : nb \in 1..MAX_CLIENTS}

\* the Games of a later turn with one snake
OneSnakeBoards ==
    {GameOf(<< SnakeOf(b) >>, f, << st >>) :
        b \in Bodies(BoardCells) \cup Bodies(CornerCells)
                 \cup Bodies(OuterCells),
        f \in FoodCells, st \in {"Playing", "Lost"}}

\* the Games of a later turn with two snakes
TwoSnakeBoards ==
    {GameOf(<< SnakeOf(b1), SnakeOf(b2) >>, f, << st1, st2 >>) :
        b1 \in Bodies(BoardCells), b2 \in Bodies(BoardCells),
        f \in FoodCells, st1 \in {"Playing", "Lost"},
        st2 \in {"Playing", "Lost"}}

\* the Games game_ can hold when it has the directions of a turn: the food
\* is on no snake, the snakes share no cell, a player whose snake has been on
\* the border is Lost
Boards ==
    FirstBoards \cup
    {g \in OneSnakeBoards \cup TwoSnakeBoards :
        /\ ~DoOverlap(g.snakes, g.food)
        /\ \A k \in 1..Len(g.snakes) : g.states[k] \in StatesOf(g.snakes[k].body)
        /\ \A k \in 1..Len(g.snakes) : \A j \in 1..Len(g.snakes) :
              k # j => \A n \in 1..3 :
                  ~SnakeDoOverlap(g.snakes[j], g.snakes[k].body[n])}

\* what holds of the nb sessions 1 .. nb of a pool while none has failed
PoolOf(nb) ==
    /\ size = nb
    /\ senders = [k \in 1..nb |-> k]
    /\ receivers = senders
    /\ intake = << >>
    /\ nconn = nb
    /\ should_break = (nb < MAX_CLIENTS)
    /\ nForce = IF nb < MAX_CLIENTS THEN 1 ELSE 0
    /\ panic = "none"
    /\ toWorker = [s \in Conns |-> << >>]
    /\ toCoord = [s \in Conns |-> << >>]
    /\ peerOpen = [s \in Conns |-> s <= nb]
    /\ nClose = 0

\* game_ has left the lobby loop with nb sessions and is about to call
\* Game::new: every handle_client is in its lobby loop
BoardCreateInit ==
    \E nb \in 1..MAX_CLIENTS :
        /\ PoolOf(nb)
        /\ pc = "create"
        /\ game = NoGame
        /\ turn = 0
        /\ directions = << >>
        /\ wpc = [s \in Conns |-> IF s <= nb THEN "poll" ELSE "none"]
        /\ peerLast = [s \in Conns |-> IF s <= nb THEN "WaitInLobby" ELSE "none"]
        /\ nDirs = 0

\* game_ has taken the directions of a turn from the receivers of the
\* sessions of the match: every handle_client waits for its next event, its
\* peer has been sent NewTurn and has answered
BoardPlayInit ==
    /\ game \in Boards
    /\ PoolOf(Len(game.snakes))
    /\ pc = "play"
    /\ turn = IF game \in FirstBoards THEN 1 ELSE BoardTurn
    /\ directions \in
          {[k \in 1..size |-> Direction(ds[k], k, turn)]
           : ds \in [1..size -> Directions]}
    /\ wpc = [s \in Conns |-> IF s <= size THEN "match" ELSE "none"]
    /\ peerLast = [s \in Conns |-> IF s <= size THEN "NewTurn" ELSE "none"]
    /\ nDirs = MaxDirs

BoardInit == BoardCreateInit \/ BoardPlayInit

\* Game::new runs, or the directions are written to the snakes and
\* play_turn runs
BoardNext == CreateGame \/ Play

BoardSpec == BoardInit /\ [][BoardNext]_vars

\* ------------------------------------------ a round with sessions that ended

\* the directions the peers send in the rounds drawn below
PoolDirs == {"Left", "Right"}

\* the Games after the first turn of nb players: a snake sent Left has run
\* into itself and is Lost
SecondBoards(nb) ==
    UNION {PlayTurn([g EXCEPT !.snakes =
                        [k \in 1..nb |-> [g.snakes[k] EXCEPT !.direction = ds[k]]]])
           : g \in {b \in FirstBoards : Len(b.snakes) = nb},
             ds \in [1..nb -> PoolDirs]}

\* the sessions 1 .. nb are in the match after its first turn, game_ is about
\* to run a round, and the handle_client of the sessions in ended has ended
\* since the last round because its peer closed the connection
PoolRound(nb, ended) ==
    /\ game \in SecondBoards(nb)
    /\ size = nb
    /\ senders = [k \in 1..nb |-> k]
    /\ receivers = senders
    /\ intake = << >>
    /\ nconn = nb
    /\ should_break = (nb < MAX_CLIENTS)
    /\ nForce = IF nb < MAX_CLIENTS THEN 1 ELSE 0
    /\ panic = "none"
    /\ directions = << >>
    /\ toWorker = [s \in Conns |-> << >>]
    /\ wpc = [s \in Conns |-> IF s \in ended THEN "done"
                               ELSE IF s <= nb THEN "match" ELSE "none"]
    /\ peerOpen = [s \in Conns |-> s <= nb /\ s \notin ended]
    /\ nClose = Cardinality(ended)

\* game_ is about to send the states of the first turn: a session ended when
\* it wrote the TurnMessage to a connection its peer had closed
PoolSendInit ==
    \E nb \in 1..MAX_CLIENTS : \E ended \in SUBSET (1..nb) :
        /\ PoolRound(nb, ended)
        /\ pc = "game_state"
        /\ turn = 1
        /\ toCoord = [s \in Conns |-> << >>]
        /\ peerLast = [s \in Conns |-> IF s <= nb /\ s \notin ended
                                        THEN "TurnMessage" ELSE "none"]
        /\ nDirs = nb

\* game_ is about to gather the directions of the second turn: a session
\* ended when it read the direction from a connection its peer had closed,
\* the others have sent theirs
PoolReceiveInit ==
    \E nb \in 1..MAX_CLIENTS : \E ended \in SUBSET (1..nb) :
        /\ PoolRound(nb, ended)
        /\ pc = "receive"
        /\ turn = 2
        /\ toCoord \in
              {[s \in Conns |-> IF s <= nb /\ s \notin ended
                                THEN << Direction(ds[s], s, 2) >> ELSE << >>]
               : ds \in [1..nb -> PoolDirs]}
        /\ peerLast = [s \in Conns |-> IF s <= nb /\ s \notin ended
                                        THEN "NewTurn" ELSE "none"]
        /\ nDirs = nb + (nb - Cardinality(ended))

PoolInit == PoolSendInit \/ PoolReceiveInit

\* the round runs: send_all of the states, or receive_all
PoolNext == ClientGameState \/ ReceiveAll

PoolSpec == PoolInit /\ [][PoolNext]_vars

\* ------------------------------------------------------- fair scheduling

\* a step of game_
Coordinator ==
    \/ Lobby
    \/ CreateGame
    \/ ExitLobby
    \/ SendConfig
    \/ NewTurn
    \/ WaitDirection
    \/ ReceiveAll
    \/ Play
    \/ TurnResult
    \/ ClientGameState

\* a step handle_client of s takes without a line of its peer: rx.try_recv(),
\* rx.recv() and the writes to the stream
ClientAlone(s) == ClientLobbyPoll(s) \/ ClientConfig(s) \/ ClientEvent(s)

\* every thread that can take a step is scheduled; receive of connection.rs
\* is a read_line on a blocking stream and returns when the peer has sent a
\* line or closed, which no scheduling brings about
FairSpec ==
    /\ Spec
    /\ WF_vars(Coordinator)
    /\ \A s \in Conns : WF_vars(ClientAlone(s))

\* ------------------------------------------------------------------- claims

\* where game_ stands while a match runs, and where it broadcasts
MatchPcs ==
    {"exit_lobby", "send_config", "new_turn", "wait_direction", "receive",
     "play", "turn_result", "game_state"}

SendPcs ==
    {"exit_lobby", "send_config", "new_turn", "wait_direction", "turn_result",
     "game_state"}

\* C1: in every state of a match, after Game::new, after every remove_players
\* and after every play_turn, the snakes, the states, the senders and the
\* receivers are equally many, and channels.size is that number
C1_ParallelLengths ==
    /\ Len(senders) = size
    /\ Len(receivers) = size
    /\ pc \in MatchPcs =>
          /\ Len(game.snakes) = size
          /\ Len(game.states) = size

\* a match created for two players of which one was removed, after a turn
C1_Witness ==
    /\ pc = "turn_result"
    /\ turn = 1
    /\ size = 1
    /\ Len(game.snakes) = 1
    /\ game.snakes[1].body[1].y = 5

\* C2: play_turn runs after receive_all took exactly one Direction, sent in
\* this turn, from every session still in the pool; direction i is the one
\* sent by the session at index i and is the one written to snake i; a removed
\* session contributes none
C2_TurnBarrier ==
    /\ pc \in {"play", "turn_result"} =>
          /\ Len(directions) = Len(receivers)
          /\ \A k \in 1..Len(directions) :
                /\ directions[k].type = "Direction"
                /\ directions[k].from = receivers[k]
                /\ directions[k].turn = turn
    /\ pc = "play" =>
          \A s \in Range(receivers) : \A k \in 1..Len(toCoord[s]) :
              toCoord[s][k].type # "Direction"
    /\ pc = "turn_result" =>
          /\ Len(game.snakes) = Len(directions)
          /\ \A k \in 1..Len(directions) :
                game.snakes[k].direction = directions[k].direction

\* a turn resolved for two sessions that sent different directions
C2_Witness ==
    /\ pc = "turn_result"
    /\ Len(directions) = 2
    /\ directions[1].direction # directions[2].direction
    /\ game.snakes[1].direction = directions[1].direction

\* the ids whose channel fails in the round game_ is about to run
RoundFailures ==
    IF pc = "receive"
    THEN ReceiveAllScan.ids
    ELSE IF pc \in SendPcs THEN SendAllIds ELSE << >>

\* C3: when the channels of some sessions fail during a send_all or a
\* receive_all of a running match, exactly those players' snake, state and
\* channel pair are removed and game_ does not abort
C3_FailedSessionsRemoved ==
    [][(pc' # pc /\ RoundFailures # << >>) =>
          /\ panic' = "none"
          /\ senders' = KeepIds(senders, RoundFailures)
          /\ receivers' = KeepIds(receivers, RoundFailures)
          /\ size' = size - Len(RoundFailures)
          /\ SnakesToVec(game'.snakes)
                = KeepIds(SnakesToVec(game.snakes), RoundFailures)
          /\ Len(game'.states) = size']_vars

\* C4: no message a client thread puts on its channel aborts game_
C4_NoMessageAbortsCoordinator ==
    panic \notin {"Wrong ClientMessage type received", "Received wrong event"}

\* C5: a session whose thread ends while game_ is in the lobby loop does not
\* stop the lobby: game_ stays in the lobby (or leaves it to create a Game)
C5_LobbyDisconnectKeepsRunning ==
    [][pc = "lobby" => (pc' \in {"lobby", "create"} /\ panic' = "none")]_vars

\* the sessions of the pool with a StartGame in flight
PoolForceStarts ==
    {s \in Range(receivers) :
        \E k \in 1..Len(toCoord[s]) :
            toCoord[s][k].type = "StartGame" /\ toCoord[s][k].from = s}

\* C6 as stated: game_ leaves the lobby to create a Game only after a session
\* of the pool has sent a force-start
C6_MatchOnlyAfterForceStart ==
    [][(pc = "lobby" /\ pc' = "create") => PoolForceStarts # {}]_vars

\* C6 as amended: game_ leaves the lobby to create a Game only after a session
\* of the pool has sent a force-start, or when an admission has brought the
\* pool to 4 sessions; a Game is created nowhere else
C6_MatchAfterForceStartOrFull ==
    [][/\ (pc # "create" /\ pc' = "create") =>
             /\ pc = "lobby"
             /\ \/ should_break' /\ PoolForceStarts # {}
                \/ ~should_break' /\ size = 3 /\ size' = 4
       /\ (game.snakes = << >> /\ game'.snakes # << >>) => pc = "create"]_vars

\* the lobby left on a force-start with two sessions in the pool
C6_Witness ==
    /\ pc = "create"
    /\ should_break
    /\ size = 2

\* handle_client of s writes a message to its peer in this step
Written(s) ==
    /\ wpc'[s] # "done"
    /\ \/ ClientLobbyPoll(s)
       \/ ClientConfig(s)
       \/ ClientEvent(s)

TurnMessages == {"NewTurn", "TurnMessage", "StateMessage"}

\* message b may be written right after message a ("none": nothing yet)
Follows(a, b) ==
    \/ a \in {"none", "WaitInLobby"} /\ b \in {"WaitInLobby", "Start"}
    \/ a = "Start" /\ b = "GameConfigMessage"
    \/ a \in {"GameConfigMessage"} \cup TurnMessages /\ b \in TurnMessages

\* C7: the messages written to a peer are zero or more WaitInLobby, then
\* Start once, then one GameConfigMessage, then turn messages only
C7_PeerSequence ==
    [][\A s \in Conns :
          IF Written(s)
          THEN Follows(peerLast[s], peerLast'[s])
          ELSE wpc'[s] = "done" \/ peerLast'[s] = peerLast[s]]_vars

\* a peer that was sent heartbeats, Start, the configuration and a whole turn
C7_Witness ==
    \E s \in Conns : peerLast[s] = "StateMessage" /\ turn = 1

\* C8: the pool never holds more than 4 sessions
C8_AtMostFourSessions ==
    /\ size <= 4
    /\ Len(senders) <= 4
    /\ Len(receivers) <= 4
    /\ Cardinality({s \in Conns : wpc[s] \notin {"none", "done"}}) <= 4

\* a match of 4 sessions while a 5th connection waits in the intake
C8_Witness ==
    /\ size = 4
    /\ pc \in MatchPcs
    /\ intake # << >>

\* the snake of id k before and after a play_turn: moved, or grown
MovedOrGrown(old, new, dir, food) ==
    \/ new.body = SnakeMove([old EXCEPT !.direction = dir]).body
    \/ new.body = Append(old.body, food)

\* C9: play_turn removes nobody and keeps the order; a slot goes only when
\* that session's send or recv fails; a Lost player that is connected keeps
\* its place and is sent every broadcast
C9_OnlyDisconnectRemoves ==
    [][/\ (pc = "play" /\ pc' = "turn_result") =>
             /\ senders' = senders
             /\ receivers' = receivers
             /\ size' = size
             /\ Len(game'.states) = Len(game.states)
             /\ Len(game'.snakes) = Len(game.snakes)
             /\ \A k \in 1..Len(game.snakes) :
                   MovedOrGrown(game.snakes[k], game'.snakes[k],
                                directions[k].direction, game.food)
       /\ pc \in MatchPcs =>
             \A s \in Range(receivers) \ Range(receivers') :
                 /\ ClientEnded(s)
                 /\ pc \in SendPcs \/ (pc = "receive" /\ toCoord[s] = << >>)
       /\ (pc \in SendPcs /\ pc' # pc /\ size > 0) =>
             \A k \in 1..Len(senders) :
                 (game.states[k] = "Lost" /\ ~ClientEnded(senders[k])) =>
                     /\ senders[k] \in Range(senders')
                     /\ Len(toWorker'[senders[k]])
                           = Len(toWorker[senders[k]]) + 1
                     /\ Last(toWorker'[senders[k]]).id = k - 1]_vars

\* a player that lost in turn 1 and is asked for its direction in turn 2
C9_Witness ==
    /\ pc = "receive"
    /\ turn = 2
    /\ \E k \in 1..Len(senders) :
          /\ game.states[k] = "Lost"
          /\ toWorker[senders[k]] # << >>
          /\ Last(toWorker[senders[k]]).event = "WaitDirection"

\* the body of the snake of session s
BodyOf(g, rs, s) ==
    g.snakes[CHOOSE k \in 1..Len(rs) : rs[k] = s].body

\* the state of the player of session s
StateOf(g, rs, s) ==
    g.states[CHOOSE k \in 1..Len(rs) : rs[k] = s]

\* C10: once a player is Lost, its snake's body stays the same sequence of
\* points for as long as the player is in the match
C10_LostSnakeFrozen ==
    [][(pc \in MatchPcs /\ pc' \in MatchPcs) =>
          \A s \in Range(receivers) \cap Range(receivers') :
              StateOf(game, receivers, s) = "Lost" =>
                  BodyOf(game', receivers', s) = BodyOf(game, receivers, s)]_vars

\* where game_ stands in the match loop
TurnPcs ==
    {"new_turn", "wait_direction", "receive", "play", "turn_result",
     "game_state"}

\* C11: every player is Playing when the first turn of a match begins; from
\* then on no state is Ready, and the state of a player that stays in the
\* match changes only from Playing to Lost, in play_turn
C11_StateTransitions ==
    [][/\ (pc' = "new_turn" /\ turn' = 0) =>
             \A k \in 1..Len(game'.states) : game'.states[k] = "Playing"
       /\ pc' \in TurnPcs =>
             \A k \in 1..Len(game'.states) :
                 game'.states[k] \in {"Playing", "Lost"}
       /\ (pc \in TurnPcs /\ pc' \in TurnPcs) =>
             \A s \in Range(receivers) \cap Range(receivers') :
                 \/ StateOf(game', receivers', s) = StateOf(game, receivers, s)
                 \/ /\ pc = "play"
                    /\ StateOf(game, receivers, s) = "Playing"
                    /\ StateOf(game', receivers', s) = "Lost"]_vars

\* a player that lost in turn 1 (Left, onto its own body) is Lost after turn 2
C11_Witness ==
    /\ pc = "turn_result"
    /\ turn = 2
    /\ game.states = << "Lost" >>
    /\ game.snakes[1].body[1] = Point(11, 10)
    /\ game.snakes[1].body[2] = Point(10, 10)

\* C12: the match loop is left for the lobby only at its head and only with
\* channels.size = 0, with at least one session it goes on (also when every
\* player is Lost); the lobby then starts from an empty pool without a Game,
\* and admits only connections that were never served before
C12_MatchEndsWhenPoolEmpty ==
    [][/\ (pc \in MatchPcs /\ pc' = "lobby") =>
             /\ pc = "new_turn"
             /\ size = 0
             /\ senders' = << >>
             /\ receivers' = << >>
             /\ size' = 0
             /\ game'.snakes = << >>
             /\ game'.states = << >>
       /\ (pc = "new_turn" /\ pc' # pc) =>
             IF size = 0 THEN pc' = "lobby" ELSE pc' = "wait_direction"
       /\ (pc = "lobby" /\ receivers' # receivers) =>
             /\ intake # << >>
             /\ receivers' = Append(receivers, Head(intake))
             /\ wpc[Head(intake)] = "none"
       /\ (pc = "create" /\ pc' = "exit_lobby") =>
             /\ Len(game'.snakes) = size
             /\ \A k \in 1..size :
                   /\ game'.states[k] = "Ready"
                   /\ game'.snakes[k] = SnakeInit(k - 1, size, WIDTH, HEIGHT)]_vars

\* a second match is being created for session 2 alone after the match of
\* session 1 has ended
C12_Witness ==
    /\ pc = "create"
    /\ receivers = << 2 >>
    /\ wpc[1] = "done"
    /\ game.snakes = << >>

\* C13: every event on the way to a session leads to a message with that
\* player's own slice: the id of a GameConfigMessage or TurnMessage is within
\* the snakes list of the message and designates the recipient's snake, and a
\* StateMessage carries the recipient's state (the index is within the states)
C13_OwnSlice ==
    \A s \in Conns : \A n \in 1..Len(toWorker[s]) :
        LET ev == toWorker[s][n]
        IN  /\ ev.event \in {"SendConfig", "SendTurnResult"} =>
                  /\ PeerMessage(ev).id < Len(PeerMessage(ev).snakes)
                  /\ s \in Range(receivers) =>
                        PeerMessage(ev).snakes[PeerMessage(ev).id + 1]
                            = BodyOf(game, receivers, s)
            /\ ev.event = "SendClientGameState" =>
                  /\ ev.id < Len(ev.data.states)
                  /\ s \in Range(receivers) =>
                        PeerMessage(ev).state = StateOf(game, receivers, s)

\* the SendConfig round in which session 1 (index 0) failed and was removed:
\* session 2 is now at index 0 and its GameConfigMessage has id 1
C13_Witness ==
    /\ pc = "new_turn"
    /\ turn = 0
    /\ receivers = << 2 >>
    /\ \E n \in 1..Len(toWorker[2]) :
          /\ toWorker[2][n].event = "SendConfig"
          /\ toWorker[2][n].id = 1
          /\ Len(toWorker[2][n].data.snakes) = 2

\* the cell one step from p in direction d
Step(p, d) ==
    CASE d = "Up" -> Point(p.x, p.y - 1)
      [] d = "Down" -> Point(p.x, p.y + 1)
      [] d = "Left" -> Point(p.x - 1, p.y)
      [] d = "Right" -> Point(p.x + 1, p.y)

\* the body with its first segment dropped and a head one step in d added
Advanced(body, d) == Append(Tail(body), Step(Last(body), d))

\* the bodies once every snake has moved in the direction received for it
AllAdvanced ==
    [k \in 1..Len(game.snakes) |->
        Advanced(game.snakes[k].body, directions[k].direction)]

OnBorderCell(p) == p.x = 1 \/ p.x = WIDTH \/ p.y = 1 \/ p.y = HEIGHT

\* the head of bodies[k] is on a border cell or on a segment of one of the
\* bodies other than that head segment
HeadHits(bodies, k) ==
    \/ OnBorderCell(Last(bodies[k]))
    \/ \E j \in 1..Len(bodies) : \E n \in 1..Len(bodies[j]) :
          /\ ~(j = k /\ n = Len(bodies[k]))
          /\ bodies[j][n] = Last(bodies[k])

\* game_ runs play_turn in this step
PlaysTurn == pc = "play" /\ pc' = "turn_result"

\* C14: after all snakes have moved, a snake whose head is on a border cell
\* or on a body segment of any snake becomes Lost and does not grow, also with
\* its head on the food; only otherwise a head on the food makes it grow and
\* the food move; otherwise its state and the food stay as they are
C14_CollisionPrecedence ==
    [][PlaysTurn =>
          /\ \A k \in 1..Len(game.snakes) :
                IF HeadHits(AllAdvanced, k)
                THEN /\ game'.states[k] = "Lost"
                     /\ game'.snakes[k].body = AllAdvanced[k]
                ELSE IF Last(AllAdvanced[k]) = game.food
                THEN /\ game'.states[k] = game.states[k]
                     /\ Len(game'.snakes[k].body)
                           = Len(game.snakes[k].body) + 1
                     /\ game'.food # game.food
                ELSE /\ game'.states[k] = game.states[k]
                     /\ game'.snakes[k].body = AllAdvanced[k]
          /\ (\A k \in 1..Len(game.snakes) :
                 HeadHits(AllAdvanced, k) \/ Last(AllAdvanced[k]) # game.food)
                => game'.food = game.food]_vars

\* C15: for the width and height of the board, _check_border_collisions is
\* true exactly when the head's x is 1 or width or its y is 1 or height; a
\* Playing snake alone on the board whose head is on none of its other
\* segments becomes Lost exactly then
C15_BorderCheck ==
    [][PlaysTurn =>
          \A k \in 1..Len(game'.snakes) :
              LET head == Last(game'.snakes[k].body)
                  border == \/ head.x = 1
                            \/ head.x = game'.width
                            \/ head.y = 1
                            \/ head.y = game'.height
              IN  /\ CheckBorderCollisions(game'.snakes[k], game'.width,
                                           game'.height) <=> border
                  /\ (/\ Len(game.snakes) = 1
                      /\ game.states[1] = "Playing"
                      /\ head \notin {game'.snakes[1].body[n] : n \in 1..2})
                        => (game'.states[1] = "Lost" <=> border)]_vars

\* a snake alone on the board has moved its head to x = 1 and is Lost
C15_Witness ==
    /\ pc = "turn_result"
    /\ Len(game.snakes) = 1
    /\ game.snakes[1].body = << Point(3, 2), Point(2, 2), Point(1, 2) >>
    /\ game.states = << "Lost" >>

\* C16: a snake whose head lands on the food with no border or snake
\* collision has after the turn its whole body of before the move followed
\* by the position the food had; a body grows by one segment then and only
\* then, and never has fewer than 3 segments
C16_Growth ==
    [][PlaysTurn =>
          \A k \in 1..Len(game.snakes) :
              LET old == game.snakes[k].body
                  new == game'.snakes[k].body
                  eats == /\ ~HeadHits(AllAdvanced, k)
                          /\ Last(AllAdvanced[k]) = game.food
              IN  /\ eats => /\ new = Append(old, game.food)
                             /\ Len(new) = Len(old) + 1
                             /\ new[1] = old[1]
                  /\ ~eats => Len(new) = Len(old)
                  /\ Len(old) >= 3
                  /\ Len(new) >= 3]_vars

\* a Playing snake has eaten in this turn
C16_Witness ==
    /\ pc = "turn_result"
    /\ turn = BoardTurn
    /\ \E k \in 1..Len(game.snakes) :
          /\ Len(game.snakes[k].body) = 4
          /\ game.states[k] = "Playing"
          /\ game.snakes[k].body[4] # game.food

\* C17: a snake that does not eat has after play_turn its body of before
\* without the first segment and with a new head one cell from the old head
\* in its direction (Up y-1, Down y+1, Left x-1, Right x+1): the length is
\* the same and nothing else of the Game enters
C17_Move ==
    [][PlaysTurn =>
          \A k \in 1..Len(game.snakes) :
              LET old == game.snakes[k].body
                  new == game'.snakes[k].body
                  d == directions[k].direction
                  h == Last(old)
                  head == CASE d = "Up" -> Point(h.x, h.y - 1)
                            [] d = "Down" -> Point(h.x, h.y + 1)
                            [] d = "Left" -> Point(h.x - 1, h.y)
                            [] d = "Right" -> Point(h.x + 1, h.y)
              IN  /\ Last(new) = head
                  /\ head # game.food =>
                        /\ Len(new) = Len(old)
                        /\ \A n \in 1..(Len(old) - 1) : new[n] = old[n + 1]]_vars

\* the snake [(9,5),(10,5),(11,5)] has moved Right
C17_Witness ==
    /\ pc = "turn_result"
    /\ turn = 1
    /\ directions[1].direction = "Right"
    /\ game.snakes[1].body = << Point(10, 5), Point(11, 5), Point(12, 5) >>

\* C18: when create_food has run, in Game::new and after a snake has eaten,
\* the food is on a cell inside the border, as is every point the generator
\* can give, and on no segment of any snake
C18_FoodPlacement ==
    [][((pc = "create" /\ pc' = "exit_lobby")
            \/ (PlaysTurn /\ game'.food # game.food)) =>
          /\ game'.food.x \in 2..(game'.width - 1)
          /\ game'.food.y \in 2..(game'.height - 1)
          /\ \A c \in InteriorCells : /\ c.x \in 2..(game'.width - 1)
                                      /\ c.y \in 2..(game'.height - 1)
          /\ \A k \in 1..Len(game'.snakes) :
                \A n \in 1..Len(game'.snakes[k].body) :
                    game'.snakes[k].body[n] # game'.food]_vars

\* a snake has eaten the food at (11,9) and the new food is beside it
C18_Witness ==
    /\ pc = "turn_result"
    /\ \E k \in 1..Len(game.snakes) :
          /\ Len(game.snakes[k].body) = 4
          /\ game.snakes[k].body[4] = Point(FoodMinX, FoodMinY)
    /\ game.food = Point(FoodMinX + 1, FoodMinY)

\* the ids of the sessions whose handle_client has ended, in ascending order
EndedIds ==
    SelectSeq(Ids(Len(receivers)), LAMBDA id : ClientEnded(receivers[id + 1]))

\* game_ runs a round of send_all or receive_all in this step
RunsRound ==
    \/ pc = "game_state" /\ pc' = "new_turn"
    \/ pc = "receive" /\ pc' = "play"

\* C19: in a round of send_all as of receive_all, the ids collected are those
\* of the sessions that ended, ascending and without duplicates; remove_players
\* then leaves in senders, receivers, states and snakes exactly the entries at
\* the other ids, in their order and each player's at one index, and lowers
\* channels.size by the number of ids
C19_StableRemoval ==
    [][RunsRound =>
          LET ids == RoundFailures
              kept == SelectSeq(Ids(size), LAMBDA id : id \notin Range(ids))
          IN  /\ ids = EndedIds
              /\ \A i, j \in 1..Len(ids) : i < j => ids[i] < ids[j]
              /\ size' = size - Len(ids)
              /\ Len(senders') = Len(kept)
              /\ Len(receivers') = Len(kept)
              /\ Len(game'.states) = Len(kept)
              /\ Len(game'.snakes) = Len(kept)
              /\ \A k \in 1..Len(kept) :
                    /\ senders'[k] = senders[kept[k] + 1]
                    /\ receivers'[k] = receivers[kept[k] + 1]
                    /\ game'.states[k] = game.states[kept[k] + 1]
                    /\ game'.snakes[k] = game.snakes[kept[k] + 1]]_vars

\* of four players the first and the third were removed in one round: the
\* second, Lost, and the fourth, Playing, are left
C19_Witness ==
    /\ pc \in {"new_turn", "play"}
    /\ turn \in {1, 2}
    /\ receivers = << 2, 4 >>
    /\ senders = << 2, 4 >>
    /\ size = 2
    /\ game.states = << "Lost", "Playing" >>
    /\ Len(game.snakes) = 2
    /\ game.snakes[1].body[1].y = 4
    /\ game.snakes[2].body[1].y = 8

\* the events game_ has sent so far in this match to a session of the pool
SentEvents ==
    CASE pc = "send_config" -> 1
      [] pc = "new_turn" -> 4 * turn + 2
      [] pc = "wait_direction" -> 4 * turn + 3
      [] pc \in {"receive", "play", "turn_result"} -> 4 * turn
      [] pc = "game_state" -> 4 * turn + 1
      [] OTHER -> 0

\* the n-th event game_ sends in a match
EventSent(n) ==
    IF n = 1 THEN "ExitLobby"
    ELSE IF n = 2 THEN "SendConfig"
    ELSE << "SendNewTurn", "WaitDirection", "SendTurnResult",
            "SendClientGameState" >>[((n - 3) % 4) + 1]

\* the last message written to the peer of a session that took n events
LastWritten(n) ==
    IF n = 1 THEN {"Start"}
    ELSE IF n = 2 THEN {"GameConfigMessage"}
    ELSE IF n = 0 THEN {"none", "WaitInLobby"}
    ELSE IF EventSent(n) = "WaitDirection"
         THEN {"NewTurn"}
         ELSE {CASE EventSent(n) = "SendNewTurn" -> "NewTurn"
                 [] EventSent(n) = "SendTurnResult" -> "TurnMessage"
                 [] EventSent(n) = "SendClientGameState" -> "StateMessage"}

\* the Directions session s has sent and game_ has not taken
DirectionsOf(s) == SelectSeq(toCoord[s], LAMBDA m : m.type = "Direction")

\* the sessions of the pool whose handle_client runs
Connected == {s \in Range(receivers) : ~ClientEnded(s)}

\* the events of a session in flight are the last of those sent, its peer
\* was sent the message of the last event it took, and it was asked one
\* direction for the WaitDirection it took in the turn being gathered
InTurnOrder(s) ==
    LET taken == SentEvents - Len(toWorker[s])
    IN  /\ taken >= 0
        /\ \A k \in 1..Len(toWorker[s]) :
              toWorker[s][k].event = EventSent(taken + k)
        /\ peerLast[s] \in LastWritten(taken)
        /\ Len(DirectionsOf(s)) =
              IF pc = "receive" /\ toWorker[s] = << >> THEN 1 ELSE 0
        /\ \A k \in 1..Len(DirectionsOf(s)) :
              DirectionsOf(s)[k].turn = turn

\* handle_client of s takes an event other than WaitDirection in this step
WritesTurnMessage(s) ==
    /\ wpc[s] = "match"
    /\ wpc'[s] = "match"
    /\ toWorker[s] # << >>
    /\ toWorker'[s] = Tail(toWorker[s])
    /\ Head(toWorker[s]).event # "WaitDirection"

\* handle_client of s reads a direction of its peer in this step
ReadsDirection(s) ==
    /\ wpc[s] = "match"
    /\ toWorker[s] # << >>
    /\ toWorker'[s] = Tail(toWorker[s])
    /\ Head(toWorker[s]).event = "WaitDirection"
    /\ wpc'[s] = "match"

\* game_ runs a send_all in this step
Broadcasts == pc \in SendPcs /\ pc' # pc /\ pc' # "lobby"

\* C20: the peer of a connected session is sent, turn after turn, NewTurn,
\* then asked one direction, then sent the TurnMessage and then the
\* StateMessage: a NewTurn follows the configuration or a StateMessage only,
\* a direction is read after NewTurn only and once for a WaitDirection, and a
\* send_all gives the sessions the ids of their indices, in increasing order
C20_TurnOrder ==
    [][/\ \A s \in Connected : pc \in MatchPcs /\ panic = "none" => InTurnOrder(s)
       /\ \A s \in Conns :
             /\ WritesTurnMessage(s) =>
                   << peerLast[s], peerLast'[s] >> \in
                       {<< "GameConfigMessage", "NewTurn" >>,
                        << "StateMessage", "NewTurn" >>,
                        << "NewTurn", "TurnMessage" >>,
                        << "TurnMessage", "StateMessage" >>}
             /\ ReadsDirection(s) =>
                   /\ peerLast[s] = "NewTurn"
                   /\ nDirs' = nDirs + 1
                   /\ (toWorker'[s] # << >> =>
                          Head(toWorker'[s]).event = "SendTurnResult")
       /\ Broadcasts =>
             \A k \in 1..Len(senders) :
                 ~ClientEnded(senders[k]) =>
                     /\ toWorker'[senders[k]] # << >>
                     /\ Last(toWorker'[senders[k]]).id = k - 1]_vars

\* the peer of a session was sent the NewTurn of the second turn after the
\* StateMessage of the first, and the session is asked for its direction
C20_Witness ==
    \E s \in Conns :
        /\ turn = 2
        /\ wpc[s] = "match"
        /\ peerLast[s] = "NewTurn"
        /\ toWorker[s] # << >>
        /\ Head(toWorker[s]).event = "WaitDirection"

\* ExitLobby is in the channel of s and handle_client of s is in its lobby
\* loop
ExitLobbySent(s) ==
    /\ wpc[s] \in {"poll", "read"}
    /\ toWorker[s] # << >>
    /\ Head(toWorker[s]).event = "ExitLobby"

\* C21: once ExitLobby is sent to a session whose connection stays open, its
\* handle_client, fairly scheduled, writes Start to the peer and leaves the
\* lobby loop, whatever the peer does
C21_LobbyPollDoesNotBlock ==
    \A s \in Conns :
        ExitLobbySent(s) ~> (peerLast[s] = "Start" \/ ~peerOpen[s])

\* the events handle_client of s has taken from its channel, by where it
\* stands: none in the lobby loop, ExitLobby before rx.recv(), SendConfig
\* too in the match loop
EventsTaken(s) ==
    CASE wpc[s] \in {"poll", "read"} -> 0
      [] wpc[s] = "config" -> 1
      [] OTHER -> 2

\* handle_client takes event as the n-th of its channel without panicking
Accepts(n, event) ==
    IF n = 1 THEN event = "ExitLobby"
    ELSE IF n = 2 THEN event = "SendConfig"
    ELSE event \in {"SendNewTurn", "WaitDirection", "SendTurnResult",
                    "SendClientGameState"}

\* C22: on the channel of every session the first event is ExitLobby, the
\* second SendConfig and every later one an event of the match loop: each
\* event in flight is one handle_client accepts where it will stand when it
\* takes it, so no handle_client ends in a "Received wrong event" arm
C22_NoWrongEvent ==
    \A s \in Conns :
        /\ wpc[s] = "none" => toWorker[s] = << >>
        /\ wpc[s] \notin {"none", "done"} =>
              \A k \in 1..Len(toWorker[s]) :
                  Accepts(EventsTaken(s) + k, toWorker[s][k].event)

\* a session is alone in the pool after an earlier session ended, and is
\* still in its lobby loop with ExitLobby and SendConfig in flight
C22_Witness ==
    \E s, r \in Conns :
        /\ wpc[r] = "done"
        /\ r < s
        /\ wpc[s] \in {"poll", "read"}
        /\ Len(toWorker[s]) = 2
        /\ toWorker[s][1].event = "ExitLobby"
        /\ toWorker[s][2].event = "SendConfig"
        /\ receivers = << s >>

\* C23: when play_turn is called no snake's head is at x = 0 moving Left or
\* at y = 0 moving Up, game_ does not abort in it, and after it every segment
\* of every snake has its x in 0 .. width and its y in 0 .. height
C23_NoUnderflow ==
    [][(pc = "play" /\ Len(directions) = Len(game.snakes)) =>
          /\ \A k \in 1..Len(game.snakes) :
                LET head == Last(game.snakes[k].body)
                IN  /\ ~(directions[k].direction = "Left" /\ head.x = 0)
                    /\ ~(directions[k].direction = "Up" /\ head.y = 0)
          /\ pc' # "aborted"
          /\ \A k \in 1..Len(game'.snakes) :
                \A n \in 1..Len(game'.snakes[k].body) :
                    /\ game'.snakes[k].body[n].x \in 0..game'.width
                    /\ game'.snakes[k].body[n].y \in 0..game'.height]_vars

====
